---- MODULE Spec2Model ----
(***************************************************************************)
(* The STM32 SPI driver of embassy-stm32 (src/embassy-stm32/src/spi/mod.rs) *)
(* as a state machine: the driver's fields, the register fields it writes,  *)
(* the position of the running operation, and the peripheral and the DMA    *)
(* collaborator as the environment.                                         *)
(*                                                                          *)
(* A spin loop of the code (while !flag {}) is an action that is enabled    *)
(* once the awaited status bit shows: the iterations that read the status   *)
(* register and find nothing change no state.  The error flags of the       *)
(* status register are read afresh by every poll: a poll may observe any    *)
(* combination of them.                                                     *)
(***************************************************************************)
EXTENDS Integers, Sequences, FiniteSets, TLC

\* Longest buffer a caller passes.
MaxLen == 2
\* Words the receive side of the peripheral holds before it overruns.
RxDepth == 1
\* Largest kernel clock and largest requested frequency, in Hz, of the calls
\* of compute_baud_rate that are looked at one by one.
MaxHz == 200

\* The three register layouts (cfg spi_v1/spi_f1, spi_v2, spi_v3/v4/v5).
Gens == {"v1", "v2", "v3"}
\* Word types of the transfers (both are legal on every generation).
WordTypes == {"u8", "u16"}
\* Values of a word; 0 is W::default().  The callers' read buffers start
\* filled with 1, their write buffers hold any words.
Words == {0, 1}
Flags == {"ovr", "fre", "modf", "crc"}

BlockingOps == {"blocking_write", "blocking_read", "blocking_transfer_in_place", "blocking_transfer"}
AsyncOps == {"write", "read", "transfer", "transfer_in_place"}

\* The constructors of Spi<Blocking> and of Spi<Async>.
BlockingCtors == {"new_blocking", "new_blocking_rxonly", "new_blocking_txonly",
                  "new_blocking_txonly_nosck"}
AsyncCtors == {"new", "new_rxonly", "new_txonly", "new_txonly_nosck", "new_subghz",
               "new_internal"}

VARIABLES
    gen,                \* hardware generation of the build
    tx_dma, rx_dma,     \* Spi.tx_dma / Spi.rx_dma is Some
    regs,               \* the register fields the driver programs
    current_word_size,  \* Spi.current_word_size
    txdr,               \* the transmit data register: <<w>> while w is not yet shifted out
    rxfifo,             \* received words not yet read
    tx_f, rx_f,         \* the DMA transfers: "none", "running", "done"
    pc,                 \* position of the driver
    op,                 \* the running operation: kind, word type, lengths
    wbuf,               \* the words to send
    rbuf,               \* the buffer received words are stored in
    i,                  \* loop index of the blocking operations
    result,             \* what the operation returned
    log,                \* register accesses and DMA calls of the operation, in order
                        \* (a blocking operation: up to its loop, then those of the loop)
    sent,               \* words the operation wrote to the transmit data register
    rcvd,               \* words transfer_word read from the receive data register
    rbuf0,              \* rbuf at the call
    first,              \* the DMA transfer of the operation that completed first
    ctor,               \* the constructor that made the driver
    kernel_clock,       \* Spi.kernel_clock (T::frequency()), in Hz
    cfg,                \* the register fields of the configuration: cpha, cpol, lsbfirst, br
    config,             \* the Config of the latest constructor or set_config call
    pins,               \* Spi.sck / mosi / miso: "none", "connected" or "disconnected"
    clock,              \* the peripheral clock: enabled, and how often it was disabled
    calc                \* a call of one of the pure functions: its arguments and result

hw == <<txdr, rxfifo>>
dma == <<tx_f, rx_f, first>>
drv == <<gen, tx_dma, rx_dma, ctor, kernel_clock, cfg, config, pins, clock, calc>>
call == <<op, wbuf, rbuf0>>
vars == <<gen, tx_dma, rx_dma, regs, current_word_size, txdr, rxfifo, tx_f, rx_f,
          pc, op, wbuf, rbuf, i, result, log, sent, rcvd, rbuf0, first,
          ctor, kernel_clock, cfg, config, pins, clock, calc>>

IsV3 == gen = "v3"

Max(a, b) == IF a >= b THEN a ELSE b

SeqsUpTo(S, n) == UNION {[1..k -> S] : k \in 0..n}
Filled(n, w) == [k \in 1..n |-> w]

-----------------------------------------------------------------------------
\* mod word_impl: the register encoding of a word type.
CONFIG(g, W) ==
    CASE g = "v1" -> IF W = "u8" THEN "BITS8" ELSE "BITS16"
      [] g = "v2" -> IF W = "u8" THEN <<"BITS8", "QUARTER">> ELSE <<"BITS16", "HALF">>
      [] OTHER    -> IF W = "u8" THEN 8 - 1 ELSE 16 - 1

\* A check that leaves out the CRC flag.
check_error_flags_nocrc(sr) ==
    IF "ovr" \in sr THEN "Overrun"
    ELSE IF "fre" \in sr THEN "Framing"
    ELSE IF "modf" \in sr THEN "ModeFault"
    ELSE "Ok"

\* A check that tests the mode fault before the frame error.
check_error_flags_modf_first(sr) ==
    IF "ovr" \in sr THEN "Overrun"
    ELSE IF "modf" \in sr THEN "ModeFault"
    ELSE IF "fre" \in sr THEN "Framing"
    ELSE IF "crc" \in sr THEN "Crc"
    ELSE "Ok"

\* check_error_flags: the first flag set, in the order the code tests them
\* (fre is tifre on v3, crc is crcerr or crce).  The spi_f1 build leaves the
\* fre test out: the status register of that family has no such flag, which
\* is a value of sr without "fre" here.
check_error_flags(sr) ==
    IF "ovr" \in sr THEN "Overrun"
    ELSE IF "fre" \in sr THEN "Framing"
    ELSE IF "modf" \in sr THEN "ModeFault"
    ELSE IF "crc" \in sr THEN "Crc"
    ELSE "Ok"

\* Status bits the peripheral derives from its data path.
sr_txe == txdr = <<>>
sr_rxne == rxfifo # <<>>
sr_bsy == txdr # <<>>

Logged(e) == log' = Append(log, e)

-----------------------------------------------------------------------------
\* The configuration: struct Config, its register encodings, the baud rate.

Polarities == {"IdleLow", "IdleHigh"}
Phases == {"CaptureOnFirstTransition", "CaptureOnSecondTransition"}
BitOrders == {"MsbFirst", "LsbFirst"}
\* The four bus modes.
Modes == [polarity : Polarities, phase : Phases]
MODE_0 == [polarity |-> "IdleLow", phase |-> "CaptureOnFirstTransition"]

\* impl Default for Config
DefaultConfig == [mode |-> MODE_0, bit_order |-> "MsbFirst", frequency |-> 1000000]

\* Config::raw_phase
raw_phase(c) ==
    CASE c.mode.phase = "CaptureOnSecondTransition" -> "SECONDEDGE"
      [] c.mode.phase = "CaptureOnFirstTransition" -> "FIRSTEDGE"

\* A raw_polarity with the values of its two arms exchanged.
raw_polarity_swapped(c) ==
    CASE c.mode.polarity = "IdleHigh" -> "IDLELOW"
      [] c.mode.polarity = "IdleLow" -> "IDLEHIGH"

\* Config::raw_polarity
raw_polarity(c) ==
    CASE c.mode.polarity = "IdleHigh" -> "IDLEHIGH"
      [] c.mode.polarity = "IdleLow" -> "IDLELOW"

\* Config::raw_byte_order
raw_byte_order(c) ==
    CASE c.bit_order = "LsbFirst" -> "LSBFIRST"
      [] c.bit_order = "MsbFirst" -> "MSBFIRST"

\* A table whose second range ends one early.
BaudTable_short(r) ==
    CASE r <= 2 -> "DIV2"
      [] r >= 3 /\ r <= 4 -> "DIV4"
      [] r >= 5 /\ r <= 11 -> "DIV8"
      [] r >= 12 /\ r <= 23 -> "DIV16"
      [] r >= 24 /\ r <= 39 -> "DIV32"
      [] r >= 40 /\ r <= 95 -> "DIV64"
      [] r >= 96 /\ r <= 191 -> "DIV128"
      [] OTHER -> "DIV256"

\* A table with the values of two neighbouring ranges exchanged.
BaudTable_swapped(r) ==
    CASE r <= 2 -> "DIV2"
      [] r >= 3 /\ r <= 5 -> "DIV8"
      [] r >= 6 /\ r <= 11 -> "DIV4"
      [] r >= 12 /\ r <= 23 -> "DIV16"
      [] r >= 24 /\ r <= 39 -> "DIV32"
      [] r >= 40 /\ r <= 95 -> "DIV64"
      [] r >= 96 /\ r <= 191 -> "DIV128"
      [] OTHER -> "DIV256"

\* compute_baud_rate, the arms 1..=2 to _ of its match: the Br that
\* Br::from_bits makes of 0b000 to 0b111, for r >= 1.
BaudTable(r) ==
    CASE r <= 2 -> "DIV2"
      [] r >= 3 /\ r <= 5 -> "DIV4"
      [] r >= 6 /\ r <= 11 -> "DIV8"
      [] r >= 12 /\ r <= 23 -> "DIV16"
      [] r >= 24 /\ r <= 39 -> "DIV32"
      [] r >= 40 /\ r <= 95 -> "DIV64"
      [] r >= 96 /\ r <= 191 -> "DIV128"
      [] OTHER -> "DIV256"

\* A compute_baud_rate whose first range starts at 0.
compute_baud_rate_clamp(K, F) ==
    IF F = 0 THEN "panic" ELSE BaudTable(K \div F)

\* compute_baud_rate: match kernel_clock.0 / freq.0 { 0 => panic!(..), .. }.
\* The division itself panics when freq is 0.
compute_baud_rate(K, F) ==
    IF F = 0 THEN "panic"
    ELSE IF K \div F = 0 THEN "panic"
    ELSE BaudTable(K \div F)

\* compute_frequency, its match: the divisor of a Br.
Div(br) ==
    CASE br = "DIV2" -> 2
      [] br = "DIV4" -> 4
      [] br = "DIV8" -> 8
      [] br = "DIV16" -> 16
      [] br = "DIV32" -> 32
      [] br = "DIV64" -> 64
      [] br = "DIV128" -> 128
      [] br = "DIV256" -> 256

\* compute_frequency: kernel_clock / div
compute_frequency(K, br) == K \div Div(br)

\* The fields set_config and new_inner write (cr1 on v1 and v2, cfg2 and
\* cfg1 on v3) for a Config whose baud rate is br.
ConfigRegs(c, br) ==
    [cpha |-> raw_phase(c), cpol |-> raw_polarity(c),
     lsbfirst |-> raw_byte_order(c), br |-> br]

\* get_current_config: the Config read back from the registers.
get_current_config ==
    [mode |-> [polarity |-> IF cfg.cpol = "IDLELOW" THEN "IdleLow" ELSE "IdleHigh",
               phase |-> IF cfg.cpha = "FIRSTEDGE" THEN "CaptureOnFirstTransition"
                         ELSE "CaptureOnSecondTransition"],
     bit_order |-> IF cfg.lsbfirst = "LSBFIRST" THEN "LsbFirst" ELSE "MsbFirst",
     frequency |-> compute_frequency(kernel_clock, cfg.br)]

-----------------------------------------------------------------------------
\* The registers after new_inner (default Config: MODE_0, MsbFirst).
InitRegs(g) ==
    [spe |-> TRUE, width |-> CONFIG(g, "u8"), csusp |-> FALSE, cstart |-> FALSE,
     txdmaen |-> FALSE, rxdmaen |-> FALSE]

NoOp == [kind |-> "none", W |-> "u8", rlen |-> 0, wlen |-> 0]

\* No call of a pure function is looked at.
NoCalc == [fn |-> "none", K |-> 0, F |-> 0, sr |-> {}, br |-> "none", freq |-> 0, out |-> "none"]

\* No operation runs and the peripheral holds no word.
Quiet ==
    /\ txdr = <<>>
    /\ rxfifo = <<>>
    /\ tx_f = "none"
    /\ rx_f = "none"
    /\ op = NoOp
    /\ wbuf = <<>>
    /\ rbuf = <<>>
    /\ i = 0
    /\ result = "none"
    /\ log = <<>>
    /\ sent = <<>>
    /\ rcvd = <<>>
    /\ rbuf0 = <<>>
    /\ first = "none"

\* The driver that Spi::new(peri, sck, mosi, miso, tx_dma, rx_dma,
\* Config::default()) returns at a kernel clock of 8 MHz.
Constructed ==
    /\ tx_dma = TRUE
    /\ rx_dma = TRUE
    /\ regs = InitRegs(gen)
    /\ current_word_size = CONFIG(gen, "u8")
    /\ Quiet
    /\ pc = "idle"
    /\ ctor = "new"
    /\ kernel_clock = 8000000
    /\ cfg = ConfigRegs(DefaultConfig, compute_baud_rate(8000000, DefaultConfig.frequency))
    /\ config = DefaultConfig
    /\ pins = [sck |-> "connected", mosi |-> "connected", miso |-> "connected"]
    /\ clock = [enabled |-> TRUE, disables |-> 0]

Init ==
    /\ gen \in Gens
    /\ Constructed
    /\ calc = NoCalc

-----------------------------------------------------------------------------
\* The blocking operations.

\* A loop that stops with the shorter buffer.
TransferLen_min(rlen, wlen) == IF rlen <= wlen THEN rlen ELSE wlen

\* blocking_transfer: let len = read.len().max(write.len())
TransferLen(rlen, wlen) == Max(rlen, wlen)

\* Number of positions the loop of the running blocking operation visits.
LoopLen ==
    CASE op.kind = "blocking_write" -> op.wlen
      [] op.kind = "blocking_transfer" -> TransferLen(op.rlen, op.wlen)
      [] OTHER -> op.rlen

\* write.get(i).copied().unwrap_or_default()
WriteWord(write, k) == IF k < Len(write) THEN write[k + 1] ELSE 0

\* The word the loop sends at position k (from 0).
TxWord(k) ==
    CASE op.kind = "blocking_write" -> wbuf[k + 1]
      [] op.kind = "blocking_read" -> 0
      [] op.kind = "blocking_transfer_in_place" -> rbuf[k + 1]
      [] OTHER -> WriteWord(wbuf, k)

\* if let Some(r) = read.get_mut(i) { *r = rb }
StoreWord(read, k, rb) == IF k < Len(read) THEN [read EXCEPT ![k + 1] = rb] ELSE read

\* A store that fills the whole buffer with the received word.
RxStore_all(k, rb) ==
    CASE op.kind = "blocking_write" -> rbuf
      [] OTHER -> [j \in 1..Len(rbuf) |-> rb]

\* The buffer after the word received at position k is handled.
RxStore(k, rb) ==
    CASE op.kind = "blocking_write" -> rbuf
      [] op.kind = "blocking_transfer" -> StoreWord(rbuf, k, rb)
      [] OTHER -> [rbuf EXCEPT ![k + 1] = rb]

\* for ... { transfer_word(..)? } Ok(()): the next position, or the return.
LoopStep(j) ==
    IF j < LoopLen
    THEN pc' = "tw_tx" /\ result' = result
    ELSE pc' = "ret" /\ result' = "Ok"

\* A caller starts an operation on the idle driver.
Begin(kind, W, write, read) ==
    /\ pc = "idle"
    /\ op' = [kind |-> kind, W |-> W, rlen |-> Len(read), wlen |-> Len(write)]
    /\ wbuf' = write
    /\ rbuf' = read
    /\ rbuf0' = read
    /\ i' = 0
    /\ sent' = <<>>
    /\ rcvd' = <<>>
    /\ first' = "none"

\* An entry that leaves the enable bit as it finds it.
BlockingEnter_nospe(kind, W, write, read) ==
    /\ Begin(kind, W, write, read)
    /\ log' = <<"cr1.spe=1">>
    /\ pc' = "flush"
    /\ result' = "none"
    /\ UNCHANGED <<drv, regs, current_word_size, hw, tx_f, rx_f>>

\* Every blocking operation starts with cr1.modify(|w| w.set_spe(true)).
BlockingEnter(kind, W, write, read) ==
    /\ Begin(kind, W, write, read)
    /\ regs' = [regs EXCEPT !.spe = TRUE]
    /\ log' = <<"cr1.spe=1">>
    /\ pc' = "flush"
    /\ result' = "none"
    /\ UNCHANGED <<drv, current_word_size, hw, tx_f, rx_f>>

blocking_write ==
    \E W \in WordTypes, words \in SeqsUpTo(Words, MaxLen) :
        BlockingEnter("blocking_write", W, words, <<>>)

blocking_read ==
    \E W \in WordTypes, n \in 0..MaxLen :
        BlockingEnter("blocking_read", W, <<>>, Filled(n, 1))

blocking_transfer_in_place ==
    \E W \in WordTypes, words \in SeqsUpTo(Words, MaxLen) :
        BlockingEnter("blocking_transfer_in_place", W, <<>>, words)

blocking_transfer ==
    \E W \in WordTypes, write \in SeqsUpTo(Words, MaxLen), n \in 0..MaxLen :
        BlockingEnter("blocking_transfer", W, write, Filled(n, 1))

-----------------------------------------------------------------------------
\* flush_rx_fifo: while regs.sr().read().rxne() { let _ = regs.dr().read(); }
\* (rxp and rxdr32 on v3).  Called by the blocking operations on every
\* generation, and by the asynchronous read and transfer on v1 and v2.

AfterFlush == IF op.kind \in BlockingOps THEN "sws" ELSE "a_rxdmaen"

\* The loop test finds the receive side empty: the loop ends.
FlushDone ==
    /\ pc = "flush"
    /\ ~sr_rxne
    /\ Logged("sr.read")
    /\ pc' = AfterFlush
    /\ UNCHANGED <<drv, regs, current_word_size, hw, dma, call, rbuf, i, result, sent, rcvd>>

\* A drain whose loop body does not read the data register.
FlushWord_noread ==
    /\ pc = "flush"
    /\ sr_rxne
    /\ UNCHANGED vars

\* A drain that ends at the first test, whatever it shows.
FlushWord_skip ==
    /\ pc = "flush"
    /\ sr_rxne
    /\ Logged("sr.read")
    /\ pc' = AfterFlush
    /\ UNCHANGED <<drv, regs, current_word_size, hw, dma, call, rbuf, i, result, sent, rcvd>>

\* The loop test finds a word, and the body reads it and drops it.
FlushWord ==
    /\ pc = "flush"
    /\ sr_rxne
    /\ rxfifo' = Tail(rxfifo)
    /\ log' = log \o <<"sr.read", "rxdr.read">>
    /\ UNCHANGED <<drv, regs, current_word_size, txdr, dma, pc, call, rbuf, i, result, sent, rcvd>>

-----------------------------------------------------------------------------
\* set_word_size(W::CONFIG)

\* Where the caller of set_word_size goes on.
SwsReturn == pc' = IF op.kind \in BlockingOps THEN "loop" ELSE "a_spe_off"

\* A set_word_size without its early return.
SameWordSize_never(current, word_size) == FALSE

\* if self.current_word_size == word_size { return; }
SameWordSize(current, word_size) == current = word_size

\* The peripheral's reaction to SPE = 0 on v3: it clears its receive FIFO
\* ("SPIv3 clears rxfifo on SPE=0") and the start request.
SpeOff(r) == IF IsV3 THEN [r EXCEPT !.spe = FALSE, !.cstart = FALSE] ELSE [r EXCEPT !.spe = FALSE]
RxAfterSpeOff == IF IsV3 THEN <<>> ELSE rxfifo

\* A width change that leaves the peripheral enabled.
SetDff_enabled(r, word_size) == [r EXCEPT !.width = word_size]

\* v1: cr1.modify(|reg| { reg.set_spe(false); reg.set_dff(word_size) })
SetDff(r, word_size) == [r EXCEPT !.spe = FALSE, !.width = word_size]

\* The test at the entry, and with a new width the first register access.
SetWordSizeEntry ==
    /\ pc = "sws"
    /\ IF SameWordSize(current_word_size, CONFIG(gen, op.W))
       THEN /\ SwsReturn
            /\ UNCHANGED <<regs, rxfifo, log>>
       ELSE /\ CASE gen = "v1" ->
                      \* cr1.modify(|reg| { reg.set_spe(false); reg.set_dff(word_size) })
                      /\ regs' = SetDff(regs, CONFIG(gen, op.W))
                      /\ Logged("cr1.spe=0,dff")
                      /\ pc' = "sws_on"
                      /\ UNCHANGED rxfifo
                 [] gen = "v2" ->
                      \* cr1.modify(|w| w.set_spe(false))
                      /\ regs' = [regs EXCEPT !.spe = FALSE]
                      /\ Logged("cr1.spe=0")
                      /\ pc' = "sws_v2_ds"
                      /\ UNCHANGED rxfifo
                 [] OTHER ->
                      \* cr1.modify(|w| w.set_csusp(true))
                      /\ regs' = [regs EXCEPT !.csusp = TRUE]
                      /\ Logged("cr1.csusp=1")
                      /\ pc' = "sws_v3_eot"
                      /\ UNCHANGED rxfifo
    /\ UNCHANGED <<drv, current_word_size, txdr, dma, call, rbuf, i, result, sent, rcvd>>

\* v2: cr2.modify(|w| { w.set_frxth(word_size.1); w.set_ds(word_size.0) })
SetWordSizeV2Ds ==
    /\ pc = "sws_v2_ds"
    /\ regs' = [regs EXCEPT !.width = CONFIG(gen, op.W)]
    /\ Logged("cr2.frxth,ds")
    /\ pc' = "sws_on"
    /\ UNCHANGED <<drv, current_word_size, hw, dma, call, rbuf, i, result, sent, rcvd>>

\* v3: while self.regs.sr().read().eot() {}: a read that shows eot set, after
\* which the loop goes round.  Of several such reads in a row the log keeps one.
SetWordSizeV3EotSpin ==
    /\ pc = "sws_v3_eot"
    /\ log[Len(log)] # "sr.read:eot=1"
    /\ Logged("sr.read:eot=1")
    /\ UNCHANGED <<drv, regs, current_word_size, hw, dma, pc, call, rbuf, i, result, sent, rcvd>>

\* v3: while self.regs.sr().read().eot() {}: left by a read that shows eot clear.
SetWordSizeV3Eot ==
    /\ pc = "sws_v3_eot"
    /\ Logged("sr.read:eot=0")
    /\ pc' = "sws_v3_off"
    /\ UNCHANGED <<drv, regs, current_word_size, hw, dma, call, rbuf, i, result, sent, rcvd>>

\* v3: cr1.modify(|w| w.set_spe(false))
SetWordSizeV3Off ==
    /\ pc = "sws_v3_off"
    /\ regs' = SpeOff(regs)
    /\ rxfifo' = RxAfterSpeOff
    /\ Logged("cr1.spe=0")
    /\ pc' = "sws_v3_dsize"
    /\ UNCHANGED <<drv, current_word_size, txdr, dma, call, rbuf, i, result, sent, rcvd>>

\* v3: cfg1.modify(|w| w.set_dsize(word_size))
SetWordSizeV3Dsize ==
    /\ pc = "sws_v3_dsize"
    /\ regs' = [regs EXCEPT !.width = CONFIG(gen, op.W)]
    /\ Logged("cfg1.dsize")
    /\ pc' = "sws_on"
    /\ UNCHANGED <<drv, current_word_size, hw, dma, call, rbuf, i, result, sent, rcvd>>

\* A set_word_size that does not record the width it programmed.
SetWordSizeOn_untracked ==
    /\ pc = "sws_on"
    /\ regs' = [regs EXCEPT !.spe = TRUE, !.csusp = FALSE]
    /\ Logged(IF IsV3 THEN "cr1.csusp=0,spe=1" ELSE "cr1.spe=1")
    /\ SwsReturn
    /\ UNCHANGED <<drv, current_word_size, hw, dma, call, rbuf, i, result, sent, rcvd>>

\* The last register access, cr1.modify(|w| w.set_spe(true)) (on v3 with
\* w.set_csusp(false)), and self.current_word_size = word_size.
SetWordSizeOn ==
    /\ pc = "sws_on"
    /\ regs' = [regs EXCEPT !.spe = TRUE, !.csusp = FALSE]
    /\ Logged(IF IsV3 THEN "cr1.csusp=0,spe=1" ELSE "cr1.spe=1")
    /\ current_word_size' = CONFIG(gen, op.W)
    /\ SwsReturn
    /\ UNCHANGED <<drv, hw, dma, call, rbuf, i, result, sent, rcvd>>

-----------------------------------------------------------------------------
\* for word in words.iter() / for i in 0..len: the loop is entered.
LoopEnter ==
    /\ pc = "loop"
    /\ LoopStep(0)
    /\ log' = <<>>
    /\ UNCHANGED <<drv, regs, current_word_size, hw, dma, call, rbuf, i, sent, rcvd>>

-----------------------------------------------------------------------------
\* transfer_word(regs, tx_word)

\* What a poll of the status register adds to the log: whether it showed an
\* error flag.
PollEntry(sr) == IF sr = {} THEN "sr.read" ELSE "sr.read:err"

\* A transfer_word that returns after its write, without the read.
AfterWrite_batch(g) == "tw_tx"

\* After the write to the transmit data register transfer_word goes on to
\* its wait for the received word (on v3 it sets cstart first).
AfterWrite(g) == IF g = "v3" THEN "tw_cstart" ELSE "tw_rx"

\* spin_until_tx_ready: every poll reads sr and tests the error flags first.
\* The poll that ends the loop sees the flags sr: an error, or txe (txp).
SpinUntilTxReady ==
    /\ pc = "tw_tx"
    /\ \E sr \in SUBSET Flags :
          /\ IF check_error_flags(sr) # "Ok"
             THEN pc' = "ret" /\ result' = check_error_flags(sr)
             ELSE sr_txe /\ pc' = "tw_write" /\ result' = result
          /\ Logged(PollEntry(sr))
    /\ UNCHANGED <<drv, regs, current_word_size, hw, dma, call, rbuf, i, sent, rcvd>>

\* ptr::write_volatile(regs.tx_ptr(), tx_word)
WriteTxWord ==
    /\ pc = "tw_write"
    /\ txdr' = <<TxWord(i)>>
    /\ sent' = Append(sent, TxWord(i))
    /\ Logged("txdr.write")
    /\ pc' = AfterWrite(gen)
    /\ UNCHANGED <<drv, regs, current_word_size, rxfifo, dma, call, rbuf, i, result, rcvd>>

\* v3: regs.cr1().modify(|reg| reg.set_cstart(true))
SetCstart ==
    /\ pc = "tw_cstart"
    /\ regs' = [regs EXCEPT !.cstart = TRUE]
    /\ Logged("cr1.cstart=1")
    /\ pc' = "tw_rx"
    /\ UNCHANGED <<drv, current_word_size, hw, dma, call, rbuf, i, result, sent, rcvd>>

\* spin_until_rx_ready
SpinUntilRxReady ==
    /\ pc = "tw_rx"
    /\ \E sr \in SUBSET Flags :
          /\ IF check_error_flags(sr) # "Ok"
             THEN pc' = "ret" /\ result' = check_error_flags(sr)
             ELSE sr_rxne /\ pc' = "tw_read" /\ result' = result
          /\ Logged(PollEntry(sr))
    /\ UNCHANGED <<drv, regs, current_word_size, hw, dma, call, rbuf, i, sent, rcvd>>

\* let rx_word = ptr::read_volatile(regs.rx_ptr()), the caller's store of it,
\* and the loop's step to the next position.
ReadRxWord ==
    /\ pc = "tw_read"
    /\ rxfifo # <<>>
    /\ rxfifo' = Tail(rxfifo)
    /\ rcvd' = Append(rcvd, Head(rxfifo))
    /\ rbuf' = RxStore(i, Head(rxfifo))
    /\ Logged("rxdr.read")
    /\ i' = i + 1
    /\ LoopStep(i + 1)
    /\ UNCHANGED <<drv, regs, current_word_size, txdr, dma, call, sent>>

-----------------------------------------------------------------------------
\* The asynchronous operations.  The DMA collaborator moves the data: the model
\* keeps the lengths of the buffers (as buffers of zero words), not what the
\* DMA transfers store in them.

\* An entry without the test for an empty buffer.
EntryOf_nocheck(len) == "sws"

\* write / read: if data.is_empty() { return Ok(()); }
EntryOf(len) == IF len = 0 THEN "ret" ELSE "sws"

\* A transfer_inner without its assertion: it goes by the read length.
TransferInnerEntry_noassert(rx_len, tx_len) == IF rx_len = 0 THEN "ret" ELSE "sws"

\* transfer_inner: assert_eq!(rx_len, tx_len); if rx_len == 0 { return Ok(()); }
TransferInnerEntry(rx_len, tx_len) ==
    IF rx_len # tx_len THEN "panicked"
    ELSE IF rx_len = 0 THEN "ret"
    ELSE "sws"

AsyncEnter(kind, W, rlen, wlen, entry) ==
    /\ ctor \in AsyncCtors
    /\ Begin(kind, W, Filled(wlen, 0), Filled(rlen, 0))
    /\ pc' = entry
    /\ result' = CASE entry = "ret" -> "Ok"
                   [] entry = "panicked" -> "panic"
                   [] OTHER -> "none"
    /\ log' = <<>>
    /\ UNCHANGED <<drv, regs, current_word_size, hw, tx_f, rx_f>>

write ==
    \E W \in WordTypes, n \in 0..MaxLen :
        AsyncEnter("write", W, 0, n, EntryOf(n))

read ==
    \E W \in WordTypes, n \in 0..MaxLen :
        AsyncEnter("read", W, n, 0, EntryOf(n))

transfer ==
    \E W \in WordTypes, rlen \in 0..MaxLen, wlen \in 0..MaxLen :
        AsyncEnter("transfer", W, rlen, wlen, TransferInnerEntry(rlen, wlen))

transfer_in_place ==
    \E W \in WordTypes, n \in 0..MaxLen :
        AsyncEnter("transfer_in_place", W, n, n, TransferInnerEntry(n, n))

\* A setup that enables the peripheral right after it disabled it.
AfterSpeOff_early(kind, g) == "a_spe_on"

\* A setup that prepares the receive side in write too.
AfterSpeOff_rx(kind, g) == IF g = "v3" THEN "a_rxdmaen" ELSE "flush"

\* Where the setup goes on after it cleared the enable bit.
AfterSpeOff(kind, g) ==
    IF kind = "write" THEN "a_tx_submit"
    ELSE IF g = "v3" THEN "a_rxdmaen" ELSE "flush"

\* After set_word_size: cr1.modify(|w| w.set_spe(false)).  Then write goes on
\* to its DMA transfer; read and transfer_inner drain the receive side first,
\* except on v3.
AsyncSpeOff ==
    /\ pc = "a_spe_off"
    /\ regs' = SpeOff(regs)
    /\ rxfifo' = RxAfterSpeOff
    /\ Logged("cr1.spe=0")
    /\ pc' = AfterSpeOff(op.kind, gen)
    /\ UNCHANGED <<drv, current_word_size, txdr, dma, call, rbuf, i, result, sent, rcvd>>

\* set_rxdmaen(self.regs, true)
SetRxDmaEn ==
    /\ pc = "a_rxdmaen"
    /\ regs' = [regs EXCEPT !.rxdmaen = TRUE]
    /\ Logged("rxdmaen=1")
    /\ pc' = "a_rx_submit"
    /\ UNCHANGED <<drv, current_word_size, hw, dma, call, rbuf, i, result, sent, rcvd>>

\* let rx_f = self.rx_dma.as_mut().unwrap().read(rx_src, data, ..)
RxSubmit ==
    /\ pc = "a_rx_submit"
    /\ IF rx_dma
       THEN /\ rx_f' = "running"
            /\ Logged("dma.rx.read")
            /\ pc' = "a_tx_submit"
            /\ result' = result
       ELSE /\ pc' = "panicked"
            /\ result' = "panic"
            /\ UNCHANGED <<rx_f, log>>
    /\ UNCHANGED <<drv, regs, current_word_size, hw, tx_f, first, call, rbuf, i, sent, rcvd>>

\* let tx_f = self.tx_dma.as_mut().unwrap().write(data, tx_dst, ..)
\* (write_repeated(&clock_byte, ..) in read, write_raw in transfer_inner)
TxSubmit ==
    /\ pc = "a_tx_submit"
    /\ IF tx_dma
       THEN /\ tx_f' = "running"
            /\ Logged(IF op.kind = "read" THEN "dma.tx.write_repeated" ELSE "dma.tx.write")
            /\ pc' = "a_txdmaen"
            /\ result' = result
       ELSE /\ pc' = "panicked"
            /\ result' = "panic"
            /\ UNCHANGED <<tx_f, log>>
    /\ UNCHANGED <<drv, regs, current_word_size, hw, rx_f, first, call, rbuf, i, sent, rcvd>>

\* set_txdmaen(self.regs, true)
SetTxDmaEn ==
    /\ pc = "a_txdmaen"
    /\ regs' = [regs EXCEPT !.txdmaen = TRUE]
    /\ Logged("txdmaen=1")
    /\ pc' = "a_spe_on"
    /\ UNCHANGED <<drv, current_word_size, hw, dma, call, rbuf, i, result, sent, rcvd>>

\* cr1.modify(|w| w.set_spe(true))
AsyncSpeOn ==
    /\ pc = "a_spe_on"
    /\ regs' = [regs EXCEPT !.spe = TRUE]
    /\ Logged("cr1.spe=1")
    /\ pc' = IF IsV3 THEN "a_cstart" ELSE "a_join"
    /\ UNCHANGED <<drv, current_word_size, hw, dma, call, rbuf, i, result, sent, rcvd>>

\* v3: cr1.modify(|w| w.set_cstart(true))
AsyncCstart ==
    /\ pc = "a_cstart"
    /\ regs' = [regs EXCEPT !.cstart = TRUE]
    /\ Logged("cr1.cstart=1")
    /\ pc' = "a_join"
    /\ UNCHANGED <<drv, current_word_size, hw, dma, call, rbuf, i, result, sent, rcvd>>

\* An await that ends with the first of the two transfers.
AwaitOver_any(kind, t, r) == t = "done" \/ r = "done"

\* tx_f.await in write; join(tx_f, rx_f).await in read and transfer_inner:
\* whether the await is over, given the two transfers.
AwaitOver(kind, t, r) == IF kind = "write" THEN t = "done" ELSE t = "done" /\ r = "done"

\* A finish_dma without its waits.
AfterJoin_nowait(g) == "fd_spe_off"

\* The first statement of finish_dma: the wait for ftlvl on v2, for bsy
\* (txc) on the others.
AfterJoin(g) == IF g = "v2" THEN "fd_ftlvl" ELSE "fd_wait"

\* The task resumes after the await and calls finish_dma.
Join ==
    /\ pc = "a_join"
    /\ AwaitOver(op.kind, tx_f, rx_f)
    /\ pc' = AfterJoin(gen)
    /\ UNCHANGED <<drv, regs, current_word_size, hw, dma, call, rbuf, i, result, log, sent, rcvd>>

\* The caller drops the future while it is suspended at the await: the DMA
\* transfers are dropped with it, which stops them.
Cancel ==
    /\ pc = "a_join"
    /\ tx_f' = "none"
    /\ rx_f' = "none"
    /\ pc' = "ret"
    /\ result' = "cancelled"
    /\ UNCHANGED <<drv, regs, current_word_size, hw, first, call, rbuf, i, log, sent, rcvd>>

-----------------------------------------------------------------------------
\* finish_dma(regs)

\* v2: while regs.sr().read().ftlvl().to_bits() > 0 {}
FinishFtlvl ==
    /\ pc = "fd_ftlvl"
    /\ txdr = <<>>
    /\ Logged("sr.read:ftlvl=0")
    /\ pc' = "fd_wait"
    /\ UNCHANGED <<drv, regs, current_word_size, hw, dma, call, rbuf, i, result, sent, rcvd>>

\* A finish_dma that tests the error flags of the status register it reads.
FinishFlags_checked(sr) == check_error_flags(sr)

\* What finish_dma makes of the error flags in the status register it reads:
\* nothing, it tests bsy (txc) alone.
FinishFlags(sr) == "Ok"

\* while regs.sr().read().bsy() {}   (v3: while !regs.sr().read().txc() {})
\* The read that ends the loop shows the error flags sr.
FinishWait ==
    /\ pc = "fd_wait"
    /\ ~sr_bsy
    /\ Logged(IF IsV3 THEN "sr.read:txc=1" ELSE "sr.read:bsy=0")
    /\ \E sr \in SUBSET Flags :
          IF FinishFlags(sr) = "Ok"
          THEN pc' = "fd_spe_off" /\ result' = result
          ELSE pc' = "ret" /\ result' = FinishFlags(sr)
    /\ UNCHANGED <<drv, regs, current_word_size, hw, dma, call, rbuf, i, sent, rcvd>>

\* regs.cr1().modify(|w| w.set_spe(false))
FinishSpeOff ==
    /\ pc = "fd_spe_off"
    /\ regs' = SpeOff(regs)
    /\ rxfifo' = RxAfterSpeOff
    /\ Logged("cr1.spe=0")
    /\ pc' = "fd_dmaen"
    /\ UNCHANGED <<drv, current_word_size, txdr, dma, call, rbuf, i, result, sent, rcvd>>

\* A finish_dma that forgets the receive request bit.
ClearDmaEn_tx(r) == [r EXCEPT !.txdmaen = FALSE]

\* modify(|reg| { reg.set_txdmaen(false); reg.set_rxdmaen(false) })
ClearDmaEn(r) == [r EXCEPT !.txdmaen = FALSE, !.rxdmaen = FALSE]

\* The last access of finish_dma, and the operation's Ok(()).
FinishDmaEnOff ==
    /\ pc = "fd_dmaen"
    /\ regs' = ClearDmaEn(regs)
    /\ Logged("txdmaen=0,rxdmaen=0")
    /\ pc' = "ret"
    /\ result' = "Ok"
    /\ UNCHANGED <<drv, current_word_size, hw, dma, call, rbuf, i, sent, rcvd>>

-----------------------------------------------------------------------------
\* The peripheral.

\* Another word is clocked: the word in the transmit data register goes out
\* and the word r comes in.  A running receive DMA transfer takes it; otherwise
\* it waits in the receive FIFO, and is lost when that is full.
Shift ==
    /\ pc # "ret"
    /\ clock.enabled
    /\ regs.spe
    /\ txdr # <<>>
    /\ IsV3 => regs.cstart
    /\ txdr' = <<>>
    /\ \E r \in Words :
          rxfifo' = IF rx_f = "running" /\ regs.rxdmaen THEN rxfifo
                    ELSE IF Len(rxfifo) < RxDepth THEN Append(rxfifo, r)
                    ELSE rxfifo
    /\ UNCHANGED <<drv, regs, current_word_size, dma, pc, call, rbuf, i, result, log, sent, rcvd>>

\* The transmit DMA transfer completes: it has handed its last word to the
\* transmit data register, which may still be shifting it out.
DmaTxComplete ==
    /\ tx_f = "running"
    /\ regs.spe /\ regs.txdmaen
    /\ IsV3 => regs.cstart
    /\ txdr = <<>>
    /\ tx_f' = "done"
    /\ \E w \in (IF op.kind = "read" THEN {0} ELSE Words) : txdr' = <<w>>
    /\ first' = IF first = "none" THEN "tx" ELSE first
    /\ UNCHANGED <<drv, regs, current_word_size, rxfifo, rx_f, pc, call, rbuf, i, result, log, sent, rcvd>>

\* The receive DMA transfer completes.
DmaRxComplete ==
    /\ rx_f = "running"
    /\ regs.spe /\ regs.rxdmaen
    /\ rx_f' = "done"
    /\ first' = IF first = "none" THEN "rx" ELSE first
    /\ UNCHANGED <<drv, regs, current_word_size, hw, tx_f, pc, call, rbuf, i, result, log, sent, rcvd>>

\* The operation has returned; the caller goes on.
Return ==
    /\ pc = "ret"
    /\ pc' = "idle"
    /\ op' = NoOp
    /\ wbuf' = <<>>
    /\ rbuf' = <<>>
    /\ rbuf0' = <<>>
    /\ i' = 0
    /\ result' = "none"
    /\ log' = <<>>
    /\ sent' = <<>>
    /\ rcvd' = <<>>
    /\ first' = "none"
    /\ tx_f' = "none"
    /\ rx_f' = "none"
    /\ UNCHANGED <<drv, regs, current_word_size, hw>>

-----------------------------------------------------------------------------
\* The life of a driver: a constructor makes it, set_config reconfigures it,
\* operations run on it, drop ends it.

\* The kernel clock and the frequencies the callers ask for, in Hz.
Clocks == {8000000}
Frequencies == {1000000, 4000000, 16000000}
Configs == [mode : Modes, bit_order : BitOrders, frequency : Frequencies]
\* The Configs of the lives that go through every constructor: the default,
\* one that differs from it in every field, and one that asks for more than
\* the clock.
LifeConfigs ==
    {DefaultConfig,
     [mode |-> [polarity |-> "IdleHigh", phase |-> "CaptureOnSecondTransition"],
      bit_order |-> "LsbFirst", frequency |-> 4000000],
     [DefaultConfig EXCEPT !.frequency = 16000000]}

\* Before the constructor: no Config yet, the peripheral in its reset state
\* with its clock off.
NoConfig == [mode |-> [polarity |-> "none", phase |-> "none"], bit_order |-> "none",
             frequency |-> 0]
ResetRegs(g) == [InitRegs(g) EXCEPT !.spe = FALSE]
ResetCfg == [cpha |-> "FIRSTEDGE", cpol |-> "IDLELOW", lsbfirst |-> "MSBFIRST", br |-> "DIV2"]

InitLife ==
    /\ gen \in Gens
    /\ kernel_clock \in Clocks
    /\ pc = "unborn"
    /\ ctor = "none"
    /\ tx_dma = FALSE
    /\ rx_dma = FALSE
    /\ regs = ResetRegs(gen)
    /\ current_word_size = CONFIG(gen, "u8")
    /\ Quiet
    /\ cfg = ResetCfg
    /\ config = NoConfig
    /\ pins = [sck |-> "none", mosi |-> "none", miso |-> "none"]
    /\ clock = [enabled |-> FALSE, disables |-> 0]
    /\ calc = NoCalc

\* new_pin!(..): Some(pin), set as alternate function; or None.
Pin(present) == IF present THEN "connected" ELSE "none"

\* The panic of a constructor or of set_config, in compute_baud_rate.
ConfigPanic(name) ==
    /\ pc' = "panicked"
    /\ result' = "panic"
    /\ op' = [NoOp EXCEPT !.kind = name]

\* A constructor: its new_pin! and new_dma! arguments, then new_inner, which
\* computes the baud rate before it touches the peripheral.
new_inner(name, sck, mosi, miso, txd, rxd, c) ==
    /\ pc = "unborn"
    /\ ctor' = name
    /\ config' = c
    /\ pins' = [sck |-> Pin(sck), mosi |-> Pin(mosi), miso |-> Pin(miso)]
    /\ LET br == compute_baud_rate(kernel_clock, c.frequency) IN
       IF br = "panic"
       THEN /\ ConfigPanic("new_inner")
            /\ UNCHANGED <<tx_dma, rx_dma, regs, cfg, clock>>
       ELSE /\ clock' = [clock EXCEPT !.enabled = TRUE]
            /\ regs' = InitRegs(gen)
            /\ cfg' = ConfigRegs(c, br)
            /\ tx_dma' = txd
            /\ rx_dma' = rxd
            /\ pc' = "idle"
            /\ UNCHANGED <<op, result>>
    /\ UNCHANGED <<gen, kernel_clock, current_word_size, calc, hw, dma, wbuf, rbuf, rbuf0,
                   i, log, sent, rcvd>>

new_blocking ==
    \E c \in LifeConfigs : new_inner("new_blocking", TRUE, TRUE, TRUE, FALSE, FALSE, c)

new_blocking_rxonly ==
    \E c \in LifeConfigs : new_inner("new_blocking_rxonly", TRUE, FALSE, TRUE, FALSE, FALSE, c)

new_blocking_txonly ==
    \E c \in LifeConfigs : new_inner("new_blocking_txonly", TRUE, TRUE, FALSE, FALSE, FALSE, c)

new_blocking_txonly_nosck ==
    \E c \in LifeConfigs : new_inner("new_blocking_txonly_nosck", FALSE, TRUE, FALSE, FALSE, FALSE, c)

new ==
    \E c \in LifeConfigs : new_inner("new", TRUE, TRUE, TRUE, TRUE, TRUE, c)

new_rxonly ==
    \E c \in LifeConfigs : new_inner("new_rxonly", TRUE, FALSE, TRUE, FALSE, TRUE, c)

new_txonly ==
    \E c \in LifeConfigs : new_inner("new_txonly", TRUE, TRUE, FALSE, TRUE, FALSE, c)

new_txonly_nosck ==
    \E c \in LifeConfigs : new_inner("new_txonly_nosck", FALSE, TRUE, FALSE, TRUE, FALSE, c)

\* cfg(stm32wl): MODE_0, MsbFirst, min(pclk3 / 2, 16 MHz).
new_subghz ==
    new_inner("new_subghz", FALSE, FALSE, FALSE, TRUE, TRUE,
              [DefaultConfig EXCEPT !.frequency =
                  IF kernel_clock \div 2 <= 16000000 THEN kernel_clock \div 2 ELSE 16000000])

new_internal ==
    \E c \in LifeConfigs : new_inner("new_internal", FALSE, FALSE, FALSE, TRUE, TRUE, c)

\* A set_config that writes the mode and the bit order before it computes
\* the baud rate.
set_config_late(c) ==
    /\ pc = "idle"
    /\ config' = c
    /\ LET br == compute_baud_rate(kernel_clock, c.frequency) IN
       IF br = "panic"
       THEN ConfigPanic("set_config") /\ cfg' = ConfigRegs(c, cfg.br)
       ELSE cfg' = ConfigRegs(c, br) /\ UNCHANGED <<pc, op, result>>
    /\ UNCHANGED <<gen, tx_dma, rx_dma, ctor, kernel_clock, pins, clock, calc, regs,
                   current_word_size, hw, dma, wbuf, rbuf, rbuf0, i, log, sent, rcvd>>

\* set_config(&config): the baud rate is computed before the registers are
\* written.
set_config(c) ==
    /\ pc = "idle"
    /\ config' = c
    /\ LET br == compute_baud_rate(kernel_clock, c.frequency) IN
       IF br = "panic"
       THEN ConfigPanic("set_config") /\ cfg' = cfg
       ELSE cfg' = ConfigRegs(c, br) /\ UNCHANGED <<pc, op, result>>
    /\ UNCHANGED <<gen, tx_dma, rx_dma, ctor, kernel_clock, pins, clock, calc, regs,
                   current_word_size, hw, dma, wbuf, rbuf, rbuf0, i, log, sent, rcvd>>

\* set_config in the lives that go through every constructor.
set_life_config == \E c \in LifeConfigs : set_config(c)

\* Spi::new and set_config with every Config.
new_with_config ==
    \E c \in Configs : new_inner("new", TRUE, TRUE, TRUE, TRUE, TRUE, c)

set_any_config == \E c \in Configs : set_config(c)

\* A drop that leaves the pins as they are.
Disconnect_keep(p) == p

\* self.sck.as_ref().map(|x| x.set_as_disconnected()), and so for mosi, miso.
Disconnect(p) == IF p = "none" THEN "none" ELSE "disconnected"

\* impl Drop for Spi.  The driver is dropped when no operation borrows it.
drop ==
    /\ pc = "idle"
    /\ pins' = [p \in {"sck", "mosi", "miso"} |-> Disconnect(pins[p])]
    /\ clock' = [enabled |-> FALSE, disables |-> clock.disables + 1]
    /\ pc' = "dropped"
    /\ UNCHANGED <<gen, tx_dma, rx_dma, ctor, kernel_clock, cfg, config, calc, regs,
                   current_word_size, hw, dma, call, rbuf, i, result, log, sent, rcvd>>

\* The operations of a life: each of the eight, on buffers of one word.
blocking_call ==
    \E W \in WordTypes :
        \/ BlockingEnter("blocking_write", W, <<1>>, <<>>)
        \/ BlockingEnter("blocking_read", W, <<>>, <<1>>)
        \/ BlockingEnter("blocking_transfer_in_place", W, <<>>, <<1>>)
        \/ BlockingEnter("blocking_transfer", W, <<1>>, <<1>>)

async_call ==
    \E W \in WordTypes :
        \/ AsyncEnter("write", W, 0, 1, EntryOf(1))
        \/ AsyncEnter("read", W, 1, 0, EntryOf(1))
        \/ AsyncEnter("transfer", W, 1, 1, TransferInnerEntry(1, 1))
        \/ AsyncEnter("transfer_in_place", W, 1, 1, TransferInnerEntry(1, 1))

-----------------------------------------------------------------------------
\* The free functions compute_baud_rate, compute_frequency and
\* check_error_flags, called on their own: every call within the bounds, next
\* to a driver that does nothing.

\* The variables of the driver and the peripheral.
driver == <<gen, tx_dma, rx_dma, regs, current_word_size, txdr, rxfifo, tx_f, rx_f,
            pc, op, wbuf, rbuf, i, result, log, sent, rcvd, rbuf0, first,
            ctor, kernel_clock, cfg, config, pins, clock>>

\* compute_baud_rate(Hertz(K), Hertz(F)): every pair up to MaxHz, and the two
\* pairs of 4.3 and 8 of the specification.
BaudCalls ==
    {[NoCalc EXCEPT !.fn = "baud", !.K = kf[1], !.F = kf[2]] :
        kf \in ((0..MaxHz) \X (0..MaxHz)) \cup {<<8000000, 1000000>>, <<1000000, 2000000>>}}

\* check_error_flags(sr): every combination of the flags.
FlagCalls == {[NoCalc EXCEPT !.fn = "flags", !.sr = sr] : sr \in SUBSET Flags}

InitPure ==
    /\ gen = "v1"
    /\ Constructed
    /\ calc \in BaudCalls \cup FlagCalls

ComputeBaudRate ==
    /\ calc.fn = "baud"
    /\ calc.br = "none"
    /\ calc' = [calc EXCEPT !.br = compute_baud_rate(calc.K, calc.F)]
    /\ UNCHANGED driver

\* compute_frequency of the Br that compute_baud_rate returned.
ComputeFrequency ==
    /\ calc.fn = "baud"
    /\ calc.br \notin {"none", "panic"}
    /\ calc.out = "none"
    /\ calc' = [calc EXCEPT !.freq = compute_frequency(calc.K, calc.br), !.out = "Hz"]
    /\ UNCHANGED driver

CheckErrorFlags ==
    /\ calc.fn = "flags"
    /\ calc.out = "none"
    /\ calc' = [calc EXCEPT !.out = check_error_flags(calc.sr)]
    /\ UNCHANGED driver

NextPure ==
    \/ ComputeBaudRate
    \/ ComputeFrequency
    \/ CheckErrorFlags

SpecPure == InitPure /\ [][NextPure]_vars

-----------------------------------------------------------------------------
Next ==
    \/ blocking_write
    \/ blocking_read
    \/ blocking_transfer_in_place
    \/ blocking_transfer
    \/ FlushDone
    \/ FlushWord
    \/ SetWordSizeEntry
    \/ SetWordSizeV2Ds
    \/ SetWordSizeV3EotSpin
    \/ SetWordSizeV3Eot
    \/ SetWordSizeV3Off
    \/ SetWordSizeV3Dsize
    \/ SetWordSizeOn
    \/ LoopEnter
    \/ SpinUntilTxReady
    \/ WriteTxWord
    \/ SetCstart
    \/ SpinUntilRxReady
    \/ ReadRxWord
    \/ write
    \/ read
    \/ transfer
    \/ transfer_in_place
    \/ AsyncSpeOff
    \/ SetRxDmaEn
    \/ RxSubmit
    \/ TxSubmit
    \/ SetTxDmaEn
    \/ AsyncSpeOn
    \/ AsyncCstart
    \/ Join
    \/ FinishFtlvl
    \/ FinishWait
    \/ FinishSpeOff
    \/ FinishDmaEnOff
    \/ Shift
    \/ DmaTxComplete
    \/ DmaRxComplete
    \/ Return

Spec == Init /\ [][Next]_vars

\* The operations when the caller may also drop a suspended future.
NextCancel == Next \/ Cancel

SpecCancel == Init /\ [][NextCancel]_vars

\* The steps of a blocking operation that the processor takes when it can:
\* every one but the iteration of a spin loop that finds nothing.
BlockingSteps ==
    \/ FlushDone
    \/ FlushWord
    \/ SetWordSizeEntry
    \/ SetWordSizeV2Ds
    \/ SetWordSizeV3Eot
    \/ SetWordSizeV3Off
    \/ SetWordSizeV3Dsize
    \/ SetWordSizeOn
    \/ LoopEnter
    \/ SpinUntilTxReady
    \/ WriteTxWord
    \/ SetCstart
    \/ SpinUntilRxReady
    \/ ReadRxWord

\* The operations on a processor that keeps running and a peripheral that
\* keeps shifting: a poll of the status register eventually shows the awaited
\* bit or an error flag.
SpecFair == Init /\ [][Next]_vars /\ WF_vars(BlockingSteps) /\ WF_vars(Shift)

\* The steps of a running operation.
Steps ==
    \/ FlushDone
    \/ FlushWord
    \/ SetWordSizeEntry
    \/ SetWordSizeV2Ds
    \/ SetWordSizeV3EotSpin
    \/ SetWordSizeV3Eot
    \/ SetWordSizeV3Off
    \/ SetWordSizeV3Dsize
    \/ SetWordSizeOn
    \/ LoopEnter
    \/ SpinUntilTxReady
    \/ WriteTxWord
    \/ SetCstart
    \/ SpinUntilRxReady
    \/ ReadRxWord
    \/ AsyncSpeOff
    \/ SetRxDmaEn
    \/ RxSubmit
    \/ TxSubmit
    \/ SetTxDmaEn
    \/ AsyncSpeOn
    \/ AsyncCstart
    \/ Join
    \/ FinishFtlvl
    \/ FinishWait
    \/ FinishSpeOff
    \/ FinishDmaEnOff
    \/ Shift
    \/ DmaTxComplete
    \/ DmaRxComplete
    \/ Return

NextLife ==
    \/ new_blocking
    \/ new_blocking_rxonly
    \/ new_blocking_txonly
    \/ new_blocking_txonly_nosck
    \/ new
    \/ new_rxonly
    \/ new_txonly
    \/ new_txonly_nosck
    \/ new_subghz
    \/ new_internal
    \/ set_life_config
    \/ drop
    \/ blocking_call
    \/ async_call
    \/ Cancel
    \/ Steps

\* Every constructor, then any operations, a dropped future among them, and
\* the drop.
SpecLife == InitLife /\ [][NextLife]_vars

NextConfig ==
    \/ new_with_config
    \/ set_any_config
    \/ blocking_call
    \/ async_call
    \/ Steps

\* Spi::new with any Config, then any reconfigurations and operations.
SpecConfig == InitLife /\ [][NextConfig]_vars

-----------------------------------------------------------------------------
\* The properties.

Errors == {"Overrun", "Framing", "ModeFault", "Crc"}

\* Positions of set_word_size and of finish_dma.
SwsPcs == {"sws", "sws_v2_ds", "sws_v3_eot", "sws_v3_off", "sws_v3_dsize", "sws_on"}
FinishPcs == {"fd_ftlvl", "fd_wait", "fd_spe_off", "fd_dmaen"}

\* Number of positions the specification gives a blocking operation.
Positions ==
    CASE op.kind = "blocking_write" -> op.wlen
      [] op.kind = "blocking_transfer" -> Max(op.rlen, op.wlen)
      [] OTHER -> op.rlen

TypeOK ==
    /\ gen \in Gens
    /\ pc \in {"idle", "flush", "loop", "tw_tx", "tw_write", "tw_cstart", "tw_rx", "tw_read",
               "a_spe_off", "a_rxdmaen", "a_rx_submit", "a_tx_submit", "a_txdmaen",
               "a_spe_on", "a_cstart", "a_join", "ret", "panicked",
               "unborn", "dropped"} \cup SwsPcs \cup FinishPcs
    /\ op.kind \in BlockingOps \cup AsyncOps \cup {"none", "new_inner", "set_config"}
    /\ ctor \in BlockingCtors \cup AsyncCtors \cup {"none"}
    /\ cfg.cpha \in {"FIRSTEDGE", "SECONDEDGE"}
    /\ cfg.cpol \in {"IDLELOW", "IDLEHIGH"}
    /\ cfg.lsbfirst \in {"MSBFIRST", "LSBFIRST"}
    /\ cfg.br \in {"DIV2", "DIV4", "DIV8", "DIV16", "DIV32", "DIV64", "DIV128", "DIV256"}
    /\ \A p \in {"sck", "mosi", "miso"} : pins[p] \in {"none", "connected", "disconnected"}
    /\ clock.enabled \in BOOLEAN
    /\ clock.disables \in 0..1
    /\ Len(txdr) <= 1
    /\ Len(rxfifo) <= RxDepth
    /\ tx_f \in {"none", "running", "done"}
    /\ rx_f \in {"none", "running", "done"}
    /\ result \in Errors \cup {"none", "Ok", "panic", "cancelled"}
    /\ current_word_size \in {CONFIG(gen, W) : W \in WordTypes}
    /\ i \in 0..MaxLen

\* C1: a blocking_transfer that returns Ok has exchanged exactly
\* max(read.len, write.len) words: at position k it sent write[k], or zero past
\* the end of write, and read[k] holds the word received at position k for
\* every k below read.len (later words are dropped); with equal lengths and
\* every received word equal to the word sent, read ends equal to write.
C1_BlockingTransferExchanges ==
    (pc = "ret" /\ op.kind = "blocking_transfer" /\ result = "Ok") =>
        LET n == Max(op.rlen, op.wlen) IN
        /\ Len(sent) = n
        /\ Len(rcvd) = n
        /\ \A k \in 0..(n - 1) : sent[k + 1] = IF k < op.wlen THEN wbuf[k + 1] ELSE 0
        /\ Len(rbuf) = op.rlen
        /\ \A k \in 0..(op.rlen - 1) : rbuf[k + 1] = rcvd[k + 1]
        /\ (rcvd = sent /\ op.rlen = op.wlen) => rbuf = wbuf

\* A transfer with the longer read buffer: write <<1>> is padded with a zero
\* word and both received words are stored.
C1_Witness ==
    /\ pc = "ret" /\ op.kind = "blocking_transfer" /\ result = "Ok"
    /\ wbuf = <<1>> /\ rbuf0 = <<1, 1>>
    /\ sent = <<1, 0>> /\ rbuf = <<1, 0>>

\* C2: in a blocking operation a poll that shows an error flag is the last
\* register access of the operation: the operation returns an error at once
\* and writes no further word; and an operation that returns an error stopped
\* at a position i it had not finished, having sent no word of a later position.
C2_ErrorAborts ==
    /\ \A k \in 1..Len(log) :
          log[k] = "sr.read:err" => (k = Len(log) /\ pc = "ret" /\ result \in Errors)
    /\ (pc = "ret" /\ op.kind \in BlockingOps /\ result # "Ok") =>
          /\ result \in Errors
          /\ log # <<>> /\ log[Len(log)] = "sr.read:err"
          /\ i < Positions
          /\ Len(sent) <= i + 1

\* blocking_write of two words meets an overrun at its second poll (the wait
\* for the first received word): the second word is not sent.
C2_Witness ==
    /\ pc = "ret" /\ op.kind = "blocking_write" /\ result = "Overrun"
    /\ wbuf = <<1, 1>> /\ sent = <<1>> /\ rcvd = <<>>
    /\ log = <<"sr.read", "txdr.write", "sr.read:err">>

\* C3: during a blocking operation the words written to the transmit data
\* register outnumber the words transfer_word has read from the receive data
\* register by 0 or 1, and a word is written only when the numbers are equal.
C3_Alternation ==
    op.kind \in BlockingOps =>
        /\ Len(sent) - Len(rcvd) \in {0, 1}
        /\ pc = "tw_write" => Len(sent) = Len(rcvd)

\* The second word has been written, after the first response was read.
C3_Witness ==
    /\ op.kind \in BlockingOps
    /\ Len(sent) = 2 /\ Len(rcvd) = 1

\* C4: in read, transfer and transfer_in_place, finish_dma runs and the
\* operation returns Ok only when both DMA transfers have completed.
C4_JoinWaitsForBoth ==
    (/\ op.kind \in {"read", "transfer", "transfer_in_place"}
     /\ pc \in FinishPcs \/ (pc = "ret" /\ result = "Ok" /\ op.rlen > 0))
    => (tx_f = "done" /\ rx_f = "done")

\* finish_dma of a read, whose receive transfer completed first.
C4_Witness ==
    /\ op.kind = "read" /\ pc = "fd_wait"
    /\ first = "rx" /\ tx_f = "done" /\ rx_f = "done"

\* What finish_dma does on generation g.
ExpectedFinish(g) ==
    CASE g = "v1" -> <<"sr.read:bsy=0", "cr1.spe=0", "txdmaen=0,rxdmaen=0">>
      [] g = "v2" -> <<"sr.read:ftlvl=0", "sr.read:bsy=0", "cr1.spe=0", "txdmaen=0,rxdmaen=0">>
      [] OTHER    -> <<"sr.read:txc=1", "cr1.spe=0", "txdmaen=0,rxdmaen=0">>

\* The accesses of the operation after its last access before the await.
FinishLog ==
    LET k == Len(ExpectedFinish(gen)) IN
    IF Len(log) > k /\ log[Len(log) - k] = (IF IsV3 THEN "cr1.cstart=1" ELSE "cr1.spe=1")
    THEN SubSeq(log, Len(log) - k + 1, Len(log))
    ELSE <<"?">>

\* C5: a read or transfer of a non-empty buffer that has returned has returned
\* Ok, whichever of its two DMA transfers completed first, and in both orders
\* finish_dma made the same register accesses and left the same registers.
C5_OrderIndependent ==
    (pc = "ret" /\ op.kind \in {"read", "transfer", "transfer_in_place"} /\ op.rlen > 0) =>
        /\ result = "Ok"
        /\ first \in {"tx", "rx"}
        /\ FinishLog = ExpectedFinish(gen)
        /\ regs = [spe |-> FALSE, width |-> CONFIG(gen, op.W), csusp |-> FALSE,
                   cstart |-> FALSE, txdmaen |-> FALSE, rxdmaen |-> FALSE]

\* A transfer has returned whose receive completion came first.
C5_Witness ==
    /\ pc = "ret" /\ op.kind = "transfer" /\ op.rlen > 0
    /\ result = "Ok" /\ first = "rx"

\* C6: a step that changes the width field leaves the enable bit clear, and
\* when set_word_size returns after a change the enable bit is set and the
\* width field holds the new width.
C6_WidthChangeWhileDisabled ==
    [][/\ regs'.width # regs.width => ~regs'.spe
       /\ (pc \in SwsPcs /\ pc' \notin SwsPcs /\ current_word_size' # current_word_size)
             => (regs'.spe /\ regs'.width = current_word_size')]_vars

\* On v3 the new width is in the register, the peripheral still disabled.
C6_Witness ==
    /\ gen = "v3" /\ pc = "sws_on"
    /\ ~regs.spe /\ regs.width = CONFIG(gen, "u16") /\ current_word_size = CONFIG(gen, "u8")

\* C7: set_word_size called with the tracked width accesses no register and
\* leaves the tracked width; the tracked width changes only in set_word_size,
\* which returns with the width of the operation's word type tracked, so that a
\* transfer of the same word type that follows finds it in place.
C7_SameWidthNoop ==
    [][/\ (pc = "sws" /\ pc' # "sws" /\ current_word_size = CONFIG(gen, op.W))
             => (regs' = regs /\ log' = log /\ current_word_size' = current_word_size)
       /\ (pc \in SwsPcs /\ pc' \notin SwsPcs) => current_word_size' = CONFIG(gen, op.W)
       /\ pc \notin SwsPcs => current_word_size' = current_word_size]_vars

\* A blocking operation on u16 words is past set_word_size with nothing
\* reprogrammed: an earlier operation had set this width.
C7_Witness ==
    /\ pc = "loop" /\ op.W = "u16"
    /\ log = <<"cr1.spe=1", "sr.read">>
    /\ current_word_size = CONFIG(gen, "u16")

\* The call has only empty buffers.
EmptyCall(o) ==
    CASE o.kind = "write" -> o.wlen = 0
      [] o.kind = "read" -> o.rlen = 0
      [] OTHER -> o.rlen = 0 /\ o.wlen = 0

\* C8: an asynchronous operation called with empty buffers returns Ok in the
\* step of the call, with no register access, the registers, the tracked width
\* and the peripheral as they were, and no DMA transfer started.
C8_EmptyAsyncNoop ==
    [][(pc = "idle" /\ op'.kind \in AsyncOps /\ EmptyCall(op'))
          => /\ pc' = "ret" /\ result' = "Ok"
             /\ log' = <<>>
             /\ regs' = regs /\ current_word_size' = current_word_size
             /\ txdr' = txdr /\ rxfifo' = rxfifo
             /\ tx_f' = "none" /\ rx_f' = "none"]_vars

\* read::<u16> of an empty buffer has returned, on an enabled peripheral that
\* is programmed for u8.
C8_Witness ==
    /\ pc = "ret" /\ op.kind = "read" /\ op.rlen = 0 /\ op.W = "u16"
    /\ result = "Ok" /\ log = <<>>
    /\ regs.spe /\ current_word_size = CONFIG(gen, "u8")

C10_TransferRunsForMax ==
    op.kind = "transfer" => pc # "panicked"

-----------------------------------------------------------------------------
\* Claims about the free functions, under SpecPure.

\* The order in which the claim has the flags looked at, and their errors.
FlagOrder == <<"ovr", "fre", "modf", "crc">>
ErrorOrder == <<"Overrun", "Framing", "ModeFault", "Crc">>

\* C11: check_error_flags returns the error of the first flag that is set, in
\* the order overrun, framing, mode fault, CRC, and success when none is set.
C11_FirstFlagWins ==
    (calc.fn = "flags" /\ calc.out # "none") =>
        IF calc.sr = {} THEN calc.out = "Ok"
        ELSE \E k \in 1..4 :
                /\ FlagOrder[k] \in calc.sr
                /\ \A j \in 1..(k - 1) : FlagOrder[j] \notin calc.sr
                /\ calc.out = ErrorOrder[k]

\* Frame error, mode fault and CRC error at once: Framing.
C11_Witness ==
    calc.fn = "flags" /\ calc.sr = {"fre", "modf", "crc"} /\ calc.out = "Framing"

\* The table of the claim: r from lo to hi selects the divisor d.
DivisorTable ==
    {<<1, 2, 2>>, <<3, 5, 4>>, <<6, 11, 8>>, <<12, 23, 16>>, <<24, 39, 32>>,
     <<40, 95, 64>>, <<96, 191, 128>>}

\* C13: for r = K / F >= 1 compute_baud_rate selects the divisor of the table,
\* 256 for every r >= 192, and divisor 8 for K = 8 MHz and F = 1 MHz.
C13_DivisorTable ==
    (calc.fn = "baud" /\ calc.br # "none" /\ calc.F >= 1 /\ calc.K \div calc.F >= 1) =>
        LET r == calc.K \div calc.F IN
        /\ calc.br # "panic"
        /\ \A row \in DivisorTable : (row[1] <= r /\ r <= row[2]) => Div(calc.br) = row[3]
        /\ r >= 192 => Div(calc.br) = 256
        /\ (calc.K = 8000000 /\ calc.F = 1000000) => Div(calc.br) = 8

\* The call of 8: K = 8 MHz, F = 1 MHz.
C13_Witness ==
    calc.fn = "baud" /\ calc.K = 8000000 /\ calc.F = 1000000 /\ calc.br = "DIV8"

\* C15: for F <= K the achieved frequency
\* compute_frequency(K, compute_baud_rate(K, F)) is at most F.
C15_AchievedAtMostRequested ==
    (calc.fn = "baud" /\ calc.out = "Hz" /\ calc.F <= calc.K) => calc.freq <= calc.F

\* C16: for F1 < F2 <= K the achieved frequency for F1 is at most the achieved
\* frequency for F2 (F2 is the request of the call, F1 every smaller request
\* that has an achieved frequency, which a request of 0 Hz has not).
C16_Monotone ==
    (calc.fn = "baud" /\ calc.out = "Hz") =>
        \A f1 \in 1..(calc.F - 1) :
            /\ compute_baud_rate(calc.K, f1) # "panic"
            /\ compute_frequency(calc.K, compute_baud_rate(calc.K, f1)) <= calc.freq

\* K = 12 Hz: the request of 4 Hz gets 3 Hz (the request of 2 Hz gets 1 Hz).
C16_Witness ==
    calc.fn = "baud" /\ calc.K = 12 /\ calc.F = 4 /\ calc.out = "Hz" /\ calc.freq = 3

-----------------------------------------------------------------------------
\* Claims about the configuration and the life of a driver.

PinNames == {"sck", "mosi", "miso"}

\* C14: a constructor or a set_config call that asks for more than the kernel
\* clock panics, and has written no register and enabled no clock; a driver
\* never runs with such a request applied.
C14_OverRequestHalts ==
    /\ [][(config' # config /\ config'.frequency > kernel_clock) =>
             (pc' = "panicked" /\ result' = "panic" /\ cfg' = cfg /\ regs' = regs
              /\ clock' = clock)]_vars
    /\ []((pc # "unborn" /\ ~(pc = "panicked" /\ op.kind \in {"new_inner", "set_config"}))
             => config.frequency <= kernel_clock)

\* set_config with 16 MHz at a clock of 8 MHz, on a driver made for 1 MHz.
C14_Witness ==
    /\ pc = "panicked" /\ op.kind = "set_config" /\ result = "panic"
    /\ kernel_clock = 8000000 /\ config.frequency = 16000000
    /\ cfg.br = "DIV8"

\* C17: whenever the driver can be asked, get_current_config returns the mode
\* and the bit order of the Config that was applied last.
C17_ConfigRoundTrip ==
    (pc \notin {"unborn", "panicked", "dropped"}) =>
        /\ get_current_config.mode = config.mode
        /\ get_current_config.bit_order = config.bit_order

\* After a u16 transfer on a driver set to mode 3, LsbFirst, 4 MHz.
C17_Witness ==
    /\ pc = "ret" /\ op.kind = "transfer" /\ op.W = "u16" /\ result = "Ok"
    /\ config = [mode |-> [polarity |-> "IdleHigh", phase |-> "CaptureOnSecondTransition"],
                 bit_order |-> "LsbFirst", frequency |-> 4000000]
    /\ get_current_config = config

\* C18: from its construction to its drop the driver has the clock enabled
\* and its pins connected; the drop disconnects every pin the driver owns and
\* disables the clock, once, and nothing follows it.
C18_DropReleases ==
    /\ [](pc = "unborn" => (~clock.enabled /\ clock.disables = 0))
    /\ []((pc \notin {"unborn", "dropped"} /\ op.kind # "new_inner") =>
             /\ clock.enabled /\ clock.disables = 0
             /\ \A p \in PinNames : pins[p] \in {"none", "connected"})
    /\ [](pc = "dropped" =>
             /\ ~clock.enabled /\ clock.disables = 1
             /\ \A p \in PinNames : pins[p] \in {"none", "disconnected"})
    /\ [][(pc # "dropped" /\ pc' = "dropped") =>
             \A p \in PinNames : /\ pins[p] = "connected" => pins'[p] = "disconnected"
                                 /\ pins[p] = "none" => pins'[p] = "none"]_vars
    /\ [][pc = "dropped" => (pc' = "dropped" /\ clock' = clock /\ pins' = pins)]_vars

\* A driver of new_txonly dropped after the future of a write was dropped:
\* the request bit of the transmit DMA is still set.
C18_Witness ==
    /\ pc = "dropped" /\ ctor = "new_txonly"
    /\ pins = [sck |-> "disconnected", mosi |-> "disconnected", miso |-> "none"]
    /\ clock = [enabled |-> FALSE, disables |-> 1]
    /\ regs.txdmaen

-----------------------------------------------------------------------------
\* Claims about the asynchronous operations, under Spec.

\* C12: an asynchronous operation never has one of the four errors as its
\* result, and when it returns its result is Ok, whatever flags the status
\* register shows to the reads of the operation.
C12_AsyncAlwaysOk ==
    op.kind \in AsyncOps =>
        /\ result \notin Errors
        /\ pc = "ret" => result = "Ok"

\* A write of two words has returned Ok; the receive side, which nothing
\* read, is full.
C12_Witness ==
    /\ pc = "ret" /\ op.kind = "write" /\ op.wlen = 2 /\ result = "Ok"
    /\ Len(rxfifo) = RxDepth

\* The operations with a receive DMA transfer.
ReadOps == {"read", "transfer", "transfer_in_place"}

\* What set_word_size logs.
SwsEntries ==
    {"cr1.spe=0,dff", "cr1.spe=0", "cr1.csusp=1", "cr2.frxth,ds", "sr.read:eot=1", "sr.read:eot=0",
     "cfg1.dsize", "cr1.csusp=0,spe=1", "cr1.spe=1"}

\* The setup steps that the claim lists after the word width.
SetupOrder ==
    <<"cr1.spe=0", "rxdmaen=1", "dma.rx.read",
      IF op.kind = "read" THEN "dma.tx.write_repeated" ELSE "dma.tx.write",
      "txdmaen=1", "cr1.spe=1">> \o (IF IsV3 THEN <<"cr1.cstart=1">> ELSE <<>>)

\* The log without the reads of flush_rx_fifo.
SetupLog == SelectSeq(log, LAMBDA e : e \notin {"sr.read", "rxdr.read"})

C20_FinishAfterQuiescence ==
    [][(pc \in FinishPcs /\ log' # log) =>
          /\ log'[Len(log')] = "cr1.spe=0" =>
                /\ log # <<>>
                /\ log[Len(log)] = (IF IsV3 THEN "sr.read:txc=1" ELSE "sr.read:bsy=0")
                /\ txdr = <<>>
                /\ ~regs'.spe /\ regs'.txdmaen = regs.txdmaen /\ regs'.rxdmaen = regs.rxdmaen
          /\ log'[Len(log')] = "txdmaen=0,rxdmaen=0" =>
                /\ log # <<>>
                /\ log[Len(log)] = "cr1.spe=0"
                /\ ~regs.spe
                /\ ~regs'.txdmaen /\ ~regs'.rxdmaen
          /\ (regs' # regs) => log'[Len(log')] \in {"cr1.spe=0", "txdmaen=0,rxdmaen=0"}]_vars

\* finish_dma on v3, between its two writes.
C20_Witness ==
    /\ gen = "v3" /\ pc = "fd_dmaen" /\ op.kind = "transfer"
    /\ ~regs.spe /\ regs.txdmaen /\ regs.rxdmaen
    /\ log[Len(log) - 1] = "sr.read:txc=1"

-----------------------------------------------------------------------------
\* Claims about set_word_size and the blocking operations.

\* The entries of the log after its last entry e (all of it without e).
LogSince(e) ==
    LET K == {k \in 1..Len(log) : log[k] = e}
        last == IF K = {} THEN 0 ELSE CHOOSE k \in K : \A j \in K : j <= k
    IN SubSeq(log, last + 1, Len(log))

\* C21: on v3, set_word_size with a new width clears the enable bit only
\* after a read of the status register, made after it set the suspend bit,
\* showed the transfer-complete bit set; the width field is written after
\* that.
C21_WaitsForTransferComplete ==
    [][(gen = "v3" /\ pc \in {"sws_v3_off", "sws_v3_dsize"} /\ pc' # pc)
          => \E k \in 1..Len(LogSince("cr1.csusp=1")) :
                LogSince("cr1.csusp=1")[k] = "sr.read:eot=1"]_vars

\* The positions of a blocking operation before its loop.
BeforeLoop == {"flush", "loop"} \cup SwsPcs

\* C22: on v3 a blocking operation reads the receive data register at no
\* point before its first transfer_word.
C22_V3SkipsDrain ==
    (gen = "v3" /\ op.kind \in BlockingOps /\ pc \in BeforeLoop) =>
        \A k \in 1..Len(log) : log[k] # "rxdr.read"

\* C22, amended: on v3 the blocking operations drain as on the other
\* generations: every test of flush_rx_fifo that shows receive-ready is
\* followed by a read of the receive data register, which takes one word, and
\* the drain ends at the test that shows the receive side empty; the
\* asynchronous operations on v3 never read the receive data register.
C22_V3BlockingDrains ==
    /\ [][(gen = "v3" /\ op.kind \in BlockingOps /\ pc = "flush" /\ log' # log) =>
             /\ rxfifo # <<>> =>
                   /\ log' = log \o <<"sr.read", "rxdr.read">>
                   /\ rxfifo' = Tail(rxfifo)
                   /\ pc' = "flush"
             /\ rxfifo = <<>> =>
                   /\ log' = Append(log, "sr.read")
                   /\ rxfifo' = rxfifo
                   /\ pc' = "sws"]_vars
    /\ []((gen = "v3" /\ op.kind \in AsyncOps) => \A k \in 1..Len(log) : log[k] # "rxdr.read")

\* A blocking operation on v3 has drained the word that an operation which
\* ended with an error had left.
C22_Witness ==
    /\ gen = "v3" /\ op.kind \in BlockingOps /\ pc = "flush"
    /\ log = <<"cr1.spe=1", "sr.read", "rxdr.read">>
    /\ rxfifo = <<>>

\* The positions of transfer_word in the loop of a blocking operation.
LoopPcs == {"tw_tx", "tw_write", "tw_cstart", "tw_rx", "tw_read"}

\* C23: whatever ran before, a blocking operation has the enable bit set from
\* its first step on except within set_word_size, so in its loop and at every
\* write to the transmit data register; and on v1 and v2 it reaches its loop
\* after a read of the status register that showed the receive side empty,
\* with no word written yet.
C23_EnabledAndDrained ==
    /\ [][(pc = "idle" /\ op'.kind \in BlockingOps) => regs'.spe]_vars
    /\ []((op.kind \in BlockingOps /\ pc \in {"flush", "loop"} \cup LoopPcs) => regs.spe)
    /\ [][(op.kind \in BlockingOps /\ Len(sent') > Len(sent)) => (regs.spe /\ regs'.spe)]_vars
    /\ []((gen \in {"v1", "v2"} /\ op.kind \in BlockingOps /\ pc = "loop") =>
             /\ sent = <<>>
             /\ \E k \in 1..Len(log) :
                   /\ log[k] = "sr.read"
                   /\ k < Len(log) => log[k + 1] # "rxdr.read"
                   /\ \A j \in (k + 1)..Len(log) : log[j] # "rxdr.read")

\* blocking_read on v2 is about to enter its loop: it set the enable bit,
\* drained a word that an earlier operation had left, and found the tracked
\* width in place.
C23_Witness ==
    /\ gen = "v2" /\ op.kind = "blocking_read" /\ op.rlen = 2 /\ pc = "loop"
    /\ regs.spe /\ sent = <<>> /\ rxfifo = <<>>
    /\ log = <<"cr1.spe=1", "sr.read", "rxdr.read", "sr.read">>

\* The blocking operations that store what they receive.
StoringOps == {"blocking_read", "blocking_transfer_in_place", "blocking_transfer"}

\* C24: when a blocking operation that stores what it receives returns an
\* error at position i, the buffer holds the words received at the positions
\* below i and is as the caller passed it from position i on, the enable bit
\* is set, and the width field and the tracked width are those of the
\* operation's word type.
C24_PartialEffect ==
    (pc = "ret" /\ op.kind \in StoringOps /\ result \in Errors) =>
        /\ Len(rcvd) = i
        /\ Len(rbuf) = Len(rbuf0)
        /\ \A j \in 1..Len(rbuf) : rbuf[j] = IF j <= i THEN rcvd[j] ELSE rbuf0[j]
        /\ regs.spe
        /\ regs.width = CONFIG(gen, op.W)
        /\ current_word_size = CONFIG(gen, op.W)

\* blocking_transfer_in_place::<u16> of <<1, 1>> received 0 at position 0 and
\* met an overrun at position 1.
C24_Witness ==
    /\ pc = "ret" /\ op.kind = "blocking_transfer_in_place" /\ op.W = "u16"
    /\ result = "Overrun" /\ i = 1
    /\ rbuf0 = <<1, 1>> /\ rbuf = <<0, 1>>
    /\ regs.spe

-----------------------------------------------------------------------------
\* Further claims about the baud rate, under SpecPure.

\* The divisors the peripheral has.
Divisors == {Div(b) : b \in {"DIV2", "DIV4", "DIV8", "DIV16", "DIV32", "DIV64", "DIV128", "DIV256"}}

Dist(a, b) == IF a >= b THEN a - b ELSE b - a

\* C25: for 1 <= F <= K with K / F not itself a divisor, no divisor is
\* strictly closer to K / F than the one compute_baud_rate selects (the
\* distances are compared after multiplication by F).
C25_NearestDivisor ==
    (/\ calc.fn = "baud" /\ calc.br \notin {"none", "panic"}
     /\ calc.F >= 1 /\ calc.F <= calc.K
     /\ \A d \in Divisors : calc.K # d * calc.F)
    => \A d \in Divisors :
          Dist(calc.K, d * calc.F) >= Dist(calc.K, Div(calc.br) * calc.F)

-----------------------------------------------------------------------------
\* Claims about the driver between its operations.

\* C26: the constructor leaves the width field and the tracked width at 8
\* bits, and whenever no operation runs, or one has just returned (with Ok or
\* with an error), the tracked width is the width in the width field.
C26_TrackedWidthIsProgrammed ==
    /\ [][(pc = "unborn" /\ pc' = "idle") =>
             (current_word_size' = CONFIG(gen, "u8") /\ regs'.width = CONFIG(gen, "u8"))]_vars
    /\ [](pc \in {"idle", "ret"} => current_word_size = regs.width)

\* After a set_config, a blocking operation on u16 words has returned an
\* error with the 16 bit width programmed and tracked.
C26_Witness ==
    /\ pc = "ret" /\ op.kind \in BlockingOps /\ op.W = "u16" /\ result = "Overrun"
    /\ config.bit_order = "LsbFirst"
    /\ current_word_size = CONFIG(gen, "u16") /\ regs.width = CONFIG(gen, "u16")

\* C27: whenever no asynchronous transfer is in progress (no operation runs,
\* an operation has returned or its future was dropped at the await, or a
\* blocking operation runs), the two DMA request bits are clear.
C27_DmaRequestsClear ==
    (pc \in {"idle", "ret"} \/ op.kind \in BlockingOps) =>
        (~regs.txdmaen /\ ~regs.rxdmaen)

\* C28: the halt of a constructor or of set_config on a frequency above the
\* kernel clock changes nothing of the peripheral: after that of a constructor
\* the clock is off and the registers are in their reset state, and the
\* halting step of set_config leaves the clock, the registers, the
\* configuration fields and the tracked width as they were.
C28_HaltBeforeEffect ==
    /\ []((pc = "panicked" /\ op.kind = "new_inner") =>
             /\ config.frequency > kernel_clock
             /\ ~clock.enabled /\ clock.disables = 0
             /\ regs = ResetRegs(gen)
             /\ cfg = ResetCfg
             /\ log = <<>>)
    /\ [][(pc = "idle" /\ pc' = "panicked" /\ op'.kind = "set_config") =>
             /\ config'.frequency > kernel_clock
             /\ clock' = clock
             /\ regs' = regs
             /\ cfg' = cfg
             /\ current_word_size' = current_word_size
             /\ txdr' = txdr /\ rxfifo' = rxfifo]_vars

\* Spi::new_txonly with 16 MHz at a kernel clock of 8 MHz has halted.
C28_Witness ==
    /\ pc = "panicked" /\ op.kind = "new_inner" /\ ctor = "new_txonly"
    /\ kernel_clock = 8000000 /\ config.frequency = 16000000
    /\ ~clock.enabled /\ regs = ResetRegs(gen)

\* What the receive side of an asynchronous operation logs: the drain, the
\* request bit, the DMA transfer.
RxEntries == {"sr.read", "rxdr.read", "rxdmaen=1", "dma.rx.read"}

\* C29: the asynchronous write never sets the receive request bit, starts no
\* receive DMA transfer and reads neither the status register for the drain
\* nor the receive data register; it goes on to finish_dma when its transmit
\* DMA transfer is done; and on a driver with a transmit DMA channel it never
\* panics, with or without a receive DMA channel.
C29_WriteUsesTxOnly ==
    /\ [](op.kind = "write" =>
             /\ \A k \in 1..Len(log) : log[k] \notin RxEntries
             /\ rx_f = "none"
             /\ pc \notin {"flush", "a_rxdmaen", "a_rx_submit"}
             /\ tx_dma => pc # "panicked")
    /\ [][op.kind = "write" => (regs'.rxdmaen => regs.rxdmaen)]_vars
    /\ [][(op.kind = "write" /\ pc = "a_join" /\ pc' \in FinishPcs) =>
             (tx_f = "done" /\ rx_f = "none")]_vars

\* A write on the driver of Spi::new_txonly, which has no receive DMA
\* channel, has returned Ok.
C29_Witness ==
    /\ ctor = "new_txonly" /\ ~rx_dma /\ tx_dma
    /\ op.kind = "write" /\ op.wlen = 1 /\ pc = "ret" /\ result = "Ok"
    /\ ~regs.rxdmaen /\ ~regs.txdmaen

-----------------------------------------------------------------------------
\* Termination of the blocking operations, under SpecFair.

\* C30: on v1 and v2 every blocking operation returns, with Ok or with an
\* error, and a blocking operation writes at most as many words as it has
\* positions.
C30_BlockingReturns ==
    /\ [](op.kind \in BlockingOps => Len(sent) <= Positions)
    /\ (gen \in {"v1", "v2"} /\ op.kind \in BlockingOps)
          ~> (pc = "ret" /\ op.kind \in BlockingOps /\ result \in Errors \cup {"Ok"})

\* On v1 a blocking_transfer with a write buffer of two words and a read
\* buffer of one has returned Ok after two writes.
C30_Witness ==
    /\ gen = "v1" /\ op.kind = "blocking_transfer" /\ op.wlen = 2 /\ op.rlen = 1
    /\ pc = "ret" /\ result = "Ok" /\ Len(sent) = 2

====
